---------------------------- MODULE Spec2Model ----------------------------
(***************************************************************************)
(* A model of models/context_processors/llm_rewriter.py: the two context   *)
(* rewriters LLMRewriter (separate and combined mode) and                  *)
(* LLMRewriterWithTitle, and one call of _process on each.                 *)
(*                                                                         *)
(* A text is a sequence of tokens (each token a string): " " and "\n" are  *)
(* the whitespace tokens, "." ends a sentence, every other token is a      *)
(* word.  The generator and the sentence tokenizer are collaborators: the  *)
(* model draws their answers from small sets.                              *)
(***************************************************************************)
EXTENDS Integers, Sequences, FiniteSets, TLC

VARIABLES
    variant,                  \* "plain" (LLMRewriter) or "title" (LLMRewriterWithTitle)
    process_separately,       \* self.process_separately (plain variant only)
    concatenate_original,     \* self.concatenate_original
    batch_size,               \* self.batch_size
    rewrite_prompt_template,  \* self.rewrite_prompt_template
    template_arg,             \* constructor argument rewrite_prompt_template, <<>> for None
    nltk_ok,                  \* whether nltk.sent_tokenize works in this run
    contexts,                 \* argument contexts: a list of lists of texts
    queries,                  \* argument queries: a list of texts
    gen_max_new_tokens,       \* self.generator.max_new_tokens
    original_max_new_tokens,  \* local original_max_new_tokens
    pc,                       \* the position of the call
    all_prompts,              \* local all_prompts
    query_doc_mapping,        \* local query_doc_mapping
    titles,                   \* local titles (title variant)
    batch_start,              \* loop variable batch_start
    batch_prompts,            \* local batch_prompts, the chunk being submitted
    rewritten,                \* rewritten_passages / rewritten_combined / rewritten_contents
    rewritten_contexts,       \* the returned context set
    raised,                   \* the exception that left _process, "none" if none
    result,                   \* the returned tuple, <<>> before the return
    calls                     \* the generate calls made so far, each with its outcome

vars == <<variant, process_separately, concatenate_original, batch_size,
          rewrite_prompt_template, template_arg, nltk_ok, contexts, queries,
          gen_max_new_tokens, original_max_new_tokens, pc, all_prompts,
          query_doc_mapping, titles, batch_start, batch_prompts, rewritten,
          rewritten_contexts, raised, result, calls>>

config == <<variant, process_separately, concatenate_original, batch_size,
            rewrite_prompt_template, template_arg, nltk_ok, contexts, queries>>

-----------------------------------------------------------------------------
(* Bounds of the model. *)

MaxQueries == 2      \* at most this many context lists
MaxDocs == 3         \* at most this many documents over all context lists
MaxBatch == 2        \* batch_size ranges over 0 .. MaxBatch

(* Program constants. *)

RewriterMaxNewTokens == 50     \* LLMRewriter(max_new_tokens=50)
GeneratorMaxNewTokens == 100   \* MockGenerator.max_new_tokens

-----------------------------------------------------------------------------
(* Texts. *)

Min(a, b) == IF a <= b THEN a ELSE b

Whitespace == {" ", "\n"}

RECURSIVE LStrip(_)
LStrip(s) ==
    IF s # <<>> /\ Head(s) \in Whitespace THEN LStrip(Tail(s)) ELSE s

RECURSIVE RStrip(_)
RStrip(s) ==
    IF s # <<>> /\ s[Len(s)] \in Whitespace
    THEN RStrip(SubSeq(s, 1, Len(s) - 1))
    ELSE s

\* str.strip()
Strip(s) == RStrip(LStrip(s))

\* len(s.strip()) == 0
IsBlank(s) == Len(Strip(s)) = 0

RECURSIVE Flatten(_)
Flatten(ss) == IF ss = <<>> THEN <<>> ELSE Head(ss) \o Flatten(Tail(ss))

\* sep.join(parts)
RECURSIVE Join(_, _)
Join(sep, parts) ==
    IF parts = <<>> THEN <<>>
    ELSE IF Len(parts) = 1 THEN parts[1]
    ELSE parts[1] \o sep \o Join(sep, Tail(parts))

\* s occurs in t as a contiguous run of tokens
Occurs(s, t) ==
    \E k \in 0..(Len(t) - Len(s)) : SubSeq(t, k + 1, k + Len(s)) = s

IsPrefix(s, t) == Len(s) <= Len(t) /\ SubSeq(t, 1, Len(s)) = s

-----------------------------------------------------------------------------
(* Prompt templates and str.format. *)

\* The named slots a template of the model may hold.
SlotTokens == {"{query}", "{passage}", "{title}", "{content}"}

\* The built-in template of LLMRewriter.
DefaultTemplate ==
    <<"Query:", "{query}", "Original Passage:", "{passage}", "Rewritten Passage:">>

\* The built-in template of LLMRewriterWithTitle.
DefaultTitleTemplate ==
    <<"Query:", "{query}", "Title:", "{title}",
      "Original Content:", "{content}", "Rewritten Content:">>

\* A custom template, written for the slots of LLMRewriter.
CustomTemplate ==
    <<"Simplify:", "Query:", "{query}", "Passage:", "{passage}", "Simplified:">>

\* The constructor argument rewrite_prompt_template: None or a template.
TemplateArgs == {<<>>, CustomTemplate}

\* __init__: the template the rewriter keeps.
InitTemplate(v, arg) ==
    IF arg = <<>>
    THEN (IF v = "title" THEN DefaultTitleTemplate ELSE DefaultTemplate)
    ELSE arg

\* template.format(**kw): ok is FALSE when a slot of the template has no
\* keyword (KeyError); keywords without a slot are ignored.
RECURSIVE FormatText(_, _)
FormatText(template, kw) ==
    IF template = <<>> THEN <<>>
    ELSE IF Head(template) \in SlotTokens
         THEN IF Head(template) \in DOMAIN kw
              THEN kw[Head(template)] \o FormatText(Tail(template), kw)
              ELSE <<>>
         ELSE <<Head(template)>> \o FormatText(Tail(template), kw)

FormatOk(template, kw) ==
    \A k \in 1..Len(template) :
        template[k] \in SlotTokens => template[k] \in DOMAIN kw

Format(template, kw) ==
    [ok |-> FormatOk(template, kw), text |-> FormatText(template, kw)]

-----------------------------------------------------------------------------
(* Title splitting (title variant). *)

\* The first position k with s[k] = "." and s[k+1] in the set next; 0 if none.
RECURSIVE FirstBreak(_, _, _)
FirstBreak(s, next, k) ==
    IF k >= Len(s) THEN 0
    ELSE IF s[k] = "." /\ s[k + 1] \in next THEN k
    ELSE FirstBreak(s, next, k + 1)

\* nltk.sent_tokenize when it works: a sentence ends at a "." that is
\* followed by whitespace and more text; the whitespace between two
\* sentences and at the end of the text is dropped; a blank text has no
\* sentence.
RECURSIVE Sentences(_)
Sentences(s) ==
    LET k == FirstBreak(s, Whitespace, 1)
    IN  IF s = <<>> THEN <<>>
        ELSE IF k = 0 THEN <<s>>
        ELSE <<SubSeq(s, 1, k)>> \o Sentences(LStrip(SubSeq(s, k + 1, Len(s))))

SentTokenize(doc) == Sentences(RStrip(doc))

\* A faulty split: when nltk.sent_tokenize raises, the document is returned
\* whole, without a title.
SplitTitleContentNoFallback(doc, ok) ==
    IF ok
    THEN LET sentences == SentTokenize(doc)
         IN  IF Len(sentences) > 0
             THEN <<sentences[1], Join(<<" ">>, Tail(sentences))>>
             ELSE <<<<>>, doc>>
    ELSE <<<<>>, doc>>

\* _split_title_content(doc): <<title, content>>; ok says whether
\* nltk.sent_tokenize returned (TRUE) or raised (FALSE).
SplitTitleContent(doc, ok) ==
    IF ok
    THEN LET sentences == SentTokenize(doc)
         IN  IF Len(sentences) > 0
             THEN <<sentences[1], Join(<<" ">>, Tail(sentences))>>
             ELSE <<<<>>, doc>>
    ELSE LET k == FirstBreak(doc, {" "}, 1)
         IN  IF k > 0
             THEN <<SubSeq(doc, 1, k - 1) \o <<".">>, SubSeq(doc, k + 2, Len(doc))>>
             ELSE <<<<>>, doc>>

-----------------------------------------------------------------------------
(* The inputs of a call. *)

\* A document is empty, whitespace only, or a text.
DocKinds == {"empty", "blank", "text"}

Word(tag, i, j) == tag \o ToString(i) \o ToString(j)

\* The text of the document of kind k at position j of context list i.  A
\* text is one sentence with trailing whitespace, or a title sentence
\* followed by a content sentence; the words of a text name its position,
\* so that no two documents of an input hold the same text.
DocText(k, i, j) ==
    CASE k = "empty" -> <<>>
      [] k = "blank" -> <<" ">>
      [] k = "text" /\ (i + j) % 2 = 1 -> <<Word("d", i, j), " ">>
      [] k = "text" /\ (i + j) % 2 = 0 ->
            <<Word("t", i, j), ".", " ", Word("c", i, j)>>

\* The lists of at most n document kinds.
KindLists(n) == UNION {[1..m -> DocKinds] : m \in 0..n}

\* The context sets of exactly q lists holding at most n documents in all.
RECURSIVE KindContexts(_, _)
KindContexts(q, n) ==
    IF q = 0 THEN {<<>>}
    ELSE UNION {{<<ks>> \o rest : rest \in KindContexts(q - 1, n - Len(ks))} :
                ks \in KindLists(n)}

ContextsOf(kc) ==
    [i \in 1..Len(kc) |-> [j \in 1..Len(kc[i]) |-> DocText(kc[i][j], i, j)]]

InputContexts ==
    UNION {{ContextsOf(kc) : kc \in KindContexts(q, MaxDocs)} : q \in 0..MaxQueries}

\* The query of index i.
QueryText(i) == <<"q" \o ToString(i)>>

\* The query lists for the context set c: one query per context list, less
\* one of the numbers of the set missing.
InputQueries(c, missing) ==
    {[i \in 1..n |-> QueryText(i)] : n \in {Len(c) - d : d \in missing} \cap Nat}

-----------------------------------------------------------------------------
(* Building the prompts. *)

\* enumerate(zip(queries, contexts)) with enumerate(docs) inside: the
\* positions <<query_idx, doc_idx>> in loop order, counted from 1.
RECURSIVE Positions(_, _, _)
Positions(ctx, qs, i) ==
    IF i > Min(Len(qs), Len(ctx)) THEN <<>>
    ELSE [j \in 1..Len(ctx[i]) |-> <<i, j>>] \o Positions(ctx, qs, i + 1)

\* A faulty skip test: doc == "", which lets whitespace through.
SkippedOnlyEmpty(doc) == doc = <<>>

\* The test of the skip: len(doc.strip()) == 0.
Skipped(doc) == IsBlank(doc)

\* query_doc_mapping: the positions whose document is not skipped.
QueryDocMapping(ctx, qs) ==
    SelectSeq(Positions(ctx, qs, 1), LAMBDA p : ~Skipped(ctx[p[1]][p[2]]))

\* A faulty prompt: the passage slot takes the document stripped.
SeparatePromptStripped(template, query, doc) ==
    Format(template, ("{query}" :> query) @@ ("{passage}" :> Strip(doc)))

\* The prompt of LLMRewriter for one document (separate mode).
SeparatePrompt(template, query, doc) ==
    Format(template, ("{query}" :> query) @@ ("{passage}" :> doc))

\* The prompt of LLMRewriterWithTitle for one document.
TitlePrompt(template, query, doc, ok) ==
    LET tc == SplitTitleContent(doc, ok)
    IN  Format(template,
               ("{query}" :> query) @@ ("{title}" :> tc[1]) @@ ("{content}" :> tc[2]))

\* The labelled documents of one query that are not skipped:
\* f"{label} {i+1}: {doc}" for i, doc in enumerate(docs) if len(doc.strip()) > 0.
RECURSIVE Labelled(_, _, _)
Labelled(label, docs, j) ==
    IF j > Len(docs) THEN <<>>
    ELSE (IF Skipped(docs[j]) THEN <<>>
          ELSE <<<<label \o " " \o ToString(j) \o ": ">> \o docs[j]>>)
         \o Labelled(label, docs, j + 1)

\* combined_passage of one query.
CombinedPassage(docs) == Join(<<"\n", "\n">>, Labelled("Passage", docs, 1))

\* The prompt of LLMRewriter for one query (combined mode).
CombinedPrompt(template, query, docs) ==
    Format(template, ("{query}" :> query) @@ ("{passage}" :> CombinedPassage(docs)))

\* Faulty prompts of combined mode: a query without a document that is not
\* skipped gets no prompt.
RenderedSkippingEmptyQueries ==
    LET m == QueryDocMapping(contexts, queries)
        kept == SelectSeq([i \in 1..Min(Len(queries), Len(contexts)) |-> i],
                          LAMBDA i : \E j \in 1..Len(contexts[i]) :
                                        ~Skipped(contexts[i][j]))
    IN  IF variant = "title"
        THEN [p \in 1..Len(m) |->
                TitlePrompt(rewrite_prompt_template, queries[m[p][1]],
                            contexts[m[p][1]][m[p][2]], nltk_ok)]
        ELSE IF process_separately
        THEN [p \in 1..Len(m) |->
                SeparatePrompt(rewrite_prompt_template, queries[m[p][1]],
                               contexts[m[p][1]][m[p][2]])]
        ELSE [n \in 1..Len(kept) |->
                CombinedPrompt(rewrite_prompt_template, queries[kept[n]],
                               contexts[kept[n]])]

\* The rendered prompts of a call, in order, each with its ok flag.
Rendered ==
    IF variant = "title"
    THEN LET m == QueryDocMapping(contexts, queries)
         IN  [p \in 1..Len(m) |->
                TitlePrompt(rewrite_prompt_template, queries[m[p][1]],
                            contexts[m[p][1]][m[p][2]], nltk_ok)]
    ELSE IF process_separately
    THEN LET m == QueryDocMapping(contexts, queries)
         IN  [p \in 1..Len(m) |->
                SeparatePrompt(rewrite_prompt_template, queries[m[p][1]],
                               contexts[m[p][1]][m[p][2]])]
    ELSE [i \in 1..Min(Len(queries), Len(contexts)) |->
            CombinedPrompt(rewrite_prompt_template, queries[i], contexts[i])]

\* Faulty titles: a title is recorded for every document, the skipped ones
\* too, so the titles after a skipped document are shifted by one.
TitlesAll(ctx, qs, ok) ==
    LET m == Positions(ctx, qs, 1)
    IN  [p \in 1..Len(m) |-> SplitTitleContent(ctx[m[p][1]][m[p][2]], ok)[1]]

\* titles: the title split from each document that is not skipped.
Titles(ctx, qs, ok) ==
    LET m == QueryDocMapping(ctx, qs)
    IN  [p \in 1..Len(m) |-> SplitTitleContent(ctx[m[p][1]][m[p][2]], ok)[1]]

-----------------------------------------------------------------------------
(* The call. *)

\* The state before the call, for a rewriter built with a template
\* argument of the set args and a batch size of the set sizes, and an input
\* with as many queries missing as a number of the set missing.
Start(args, sizes, missing) ==
    /\ variant \in {"plain", "title"}
    /\ process_separately \in (IF variant = "plain" THEN BOOLEAN ELSE {TRUE})
    /\ concatenate_original \in BOOLEAN
    /\ batch_size \in sizes
    /\ template_arg \in args
    /\ rewrite_prompt_template = InitTemplate(variant, template_arg)
    /\ nltk_ok \in (IF variant = "title" THEN BOOLEAN ELSE {TRUE})
    /\ contexts \in InputContexts
    /\ queries \in InputQueries(contexts, missing)
    /\ gen_max_new_tokens = GeneratorMaxNewTokens
    /\ original_max_new_tokens = 0
    /\ pc = "start"
    /\ all_prompts = <<>>
    /\ query_doc_mapping = <<>>
    /\ titles = <<>>
    /\ batch_start = 0
    /\ batch_prompts = <<>>
    /\ rewritten = <<>>
    /\ rewritten_contexts = <<>>
    /\ raised = "none"
    /\ result = <<>>
    /\ calls = <<>>

\* A call within the documented use: the built-in template, a batch size
\* of at least 1, one query per context list.
Init == Start({<<>>}, 1..MaxBatch, {0})

\* Any call: also a custom template, a batch size of 0, one query too few.
InitAny == Start(TemplateArgs, 0..MaxBatch, {0, 1})

\* A faulty entry: the generator's max_new_tokens is saved but not
\* overwritten.
EnterWithoutOverride ==
    /\ pc = "start"
    /\ original_max_new_tokens' = gen_max_new_tokens
    /\ pc' = "build"
    /\ UNCHANGED <<config, gen_max_new_tokens, all_prompts, query_doc_mapping, titles,
                   batch_start, batch_prompts, rewritten, rewritten_contexts, raised,
                   result, calls>>

\* _process is entered: the generator's max_new_tokens is saved and
\* overwritten.
Enter ==
    /\ pc = "start"
    /\ original_max_new_tokens' = gen_max_new_tokens
    /\ gen_max_new_tokens' = RewriterMaxNewTokens
    /\ pc' = "build"
    /\ UNCHANGED <<config, all_prompts, query_doc_mapping, titles, batch_start,
                   batch_prompts, rewritten, rewritten_contexts, raised, result, calls>>

\* The prompts are built; a template slot without keyword raises KeyError
\* at the first prompt, and the exception leaves _process.
BuildPrompts ==
    /\ pc = "build"
    /\ IF \E p \in 1..Len(Rendered) : ~Rendered[p].ok
       THEN /\ raised' = "KeyError"
            /\ pc' = "raised"
            /\ UNCHANGED <<all_prompts, query_doc_mapping, titles>>
       ELSE /\ all_prompts' = [p \in 1..Len(Rendered) |-> Rendered[p].text]
            /\ query_doc_mapping' =
                 IF variant = "title" \/ process_separately
                 THEN QueryDocMapping(contexts, queries) ELSE <<>>
            /\ titles' =
                 IF variant = "title" THEN Titles(contexts, queries, nltk_ok) ELSE <<>>
            /\ pc' = "loop"
            /\ UNCHANGED raised
    /\ UNCHANGED <<config, gen_max_new_tokens, original_max_new_tokens, batch_start,
                   batch_prompts, rewritten, rewritten_contexts, result, calls>>

-----------------------------------------------------------------------------
(* The batching loop. *)

\* A faulty slice: all_prompts[:batch_size], the first chunk every time.
ChunkFromZero(prompts, start, size) == SubSeq(prompts, 1, Min(size, Len(prompts)))

\* all_prompts[batch_start : min(batch_start + batch_size, len(all_prompts))]
Chunk(prompts, start, size) ==
    SubSeq(prompts, start + 1, Min(start + size, Len(prompts)))

\* What the generator may answer for the prompt of index p (counted from
\* 1): nothing, whitespace only, or a text with whitespace around it.
GeneratedTexts(p) == {<<>>, <<" ">>, <<" ", "r" \o ToString(p), "\n">>}

\* The answers of one generate call on n prompts, the first of index
\* start + 1: one text per prompt.
Generated(start, n) ==
    {g \in [1..n -> UNION {GeneratedTexts(start + k) : k \in 1..n}] :
        \A k \in 1..n : g[k] \in GeneratedTexts(start + k)}

\* range(0, len(all_prompts), 0) raises ValueError, and the exception
\* leaves _process.
RangeError ==
    /\ pc = "loop"
    /\ batch_size = 0
    /\ raised' = "ValueError"
    /\ pc' = "raised"
    /\ UNCHANGED <<config, gen_max_new_tokens, original_max_new_tokens, all_prompts,
                   query_doc_mapping, titles, batch_start, batch_prompts, rewritten,
                   rewritten_contexts, result, calls>>

\* A faulty submission: the chunk is handed to the generator and the loop
\* goes on to the next chunk without waiting for the call to end.
SubmitWithoutWaiting ==
    /\ pc = "loop"
    /\ batch_size >= 1
    /\ batch_start < Len(all_prompts)
    /\ batch_prompts' = Chunk(all_prompts, batch_start, batch_size)
    /\ calls' = Append(calls, [start |-> batch_start,
                               prompts |-> batch_prompts',
                               max_new_tokens |-> gen_max_new_tokens,
                               outcome |-> "pending",
                               generated |-> <<>>])
    /\ batch_start' = batch_start + batch_size
    /\ UNCHANGED <<config, gen_max_new_tokens, original_max_new_tokens, all_prompts,
                   query_doc_mapping, titles, rewritten, rewritten_contexts, raised,
                   result, pc>>

\* The next chunk is cut and generator.generate is called on it.
Submit ==
    /\ pc = "loop"
    /\ batch_size >= 1
    /\ batch_start < Len(all_prompts)
    /\ batch_prompts' = Chunk(all_prompts, batch_start, batch_size)
    /\ calls' = Append(calls, [start |-> batch_start,
                               prompts |-> batch_prompts',
                               max_new_tokens |-> gen_max_new_tokens,
                               outcome |-> "pending",
                               generated |-> <<>>])
    /\ pc' = "calling"
    /\ UNCHANGED <<config, gen_max_new_tokens, original_max_new_tokens, all_prompts,
                   query_doc_mapping, titles, batch_start, rewritten,
                   rewritten_contexts, raised, result>>

\* A faulty end of iteration: a call that raised wipes the texts collected
\* from the chunks before it.
NextChunkClearing(outcome, generated, texts) ==
    /\ rewritten' = IF outcome = "raised"
                    THEN [k \in 1..(Len(rewritten) + Len(texts)) |-> <<>>]
                    ELSE rewritten \o texts
    /\ calls' = [calls EXCEPT ![Len(calls)].outcome = outcome,
                              ![Len(calls)].generated = generated]
    /\ batch_start' = batch_start + batch_size
    /\ pc' = "loop"
    /\ UNCHANGED <<config, gen_max_new_tokens, original_max_new_tokens, all_prompts,
                   query_doc_mapping, titles, batch_prompts, rewritten_contexts,
                   raised, result>>

\* A faulty end of iteration: append where the code has extend, so the
\* texts of a chunk are collected as one element.
NextChunkAppending(outcome, generated, texts) ==
    /\ rewritten' = Append(rewritten, texts)
    /\ calls' = [calls EXCEPT ![Len(calls)].outcome = outcome,
                              ![Len(calls)].generated = generated]
    /\ batch_start' = batch_start + batch_size
    /\ pc' = "loop"
    /\ UNCHANGED <<config, gen_max_new_tokens, original_max_new_tokens, all_prompts,
                   query_doc_mapping, titles, batch_prompts, rewritten_contexts,
                   raised, result>>

\* The end of a loop iteration, after the try statement.
NextChunk(outcome, generated, texts) ==
    /\ rewritten' = rewritten \o texts
    /\ calls' = [calls EXCEPT ![Len(calls)].outcome = outcome,
                              ![Len(calls)].generated = generated]
    /\ batch_start' = batch_start + batch_size
    /\ pc' = "loop"
    /\ UNCHANGED <<config, gen_max_new_tokens, original_max_new_tokens, all_prompts,
                   query_doc_mapping, titles, batch_prompts, rewritten_contexts,
                   raised, result>>

\* generate returns one text per prompt: rewritten.extend(generated).
GenerateReturns ==
    /\ pc = "calling"
    /\ \E generated \in Generated(batch_start, Len(batch_prompts)) :
          NextChunk("returned", generated, generated)

\* generate returns one text too few, against its contract; the loop goes
\* on all the same.
GenerateReturnsShort ==
    /\ pc = "calling"
    /\ \E generated \in Generated(batch_start, Len(batch_prompts) - 1) :
          /\ \A k \in 1..Len(generated) : ~IsBlank(generated[k])
          /\ NextChunk("short", generated, generated)

\* A faulty except clause: one empty text for the whole chunk.
OnErrorSingle(prompts) == <<<<>>>>

\* The texts recorded for a chunk whose generate call raised.
OnError(prompts) == [k \in 1..Len(prompts) |-> <<>>]

\* A faulty handling: the exception of generate leaves _process.
GenerateRaisesPropagating ==
    /\ pc = "calling"
    /\ calls' = [calls EXCEPT ![Len(calls)].outcome = "raised"]
    /\ raised' = "Exception"
    /\ pc' = "raised"
    /\ UNCHANGED <<config, gen_max_new_tokens, original_max_new_tokens, all_prompts,
                   query_doc_mapping, titles, batch_start, batch_prompts, rewritten,
                   rewritten_contexts, result>>

\* generate raises: the except clause records an empty text per prompt.
GenerateRaises ==
    /\ pc = "calling"
    /\ NextChunk("raised", <<>>, OnError(batch_prompts))

-----------------------------------------------------------------------------
(* Splicing the rewritten texts back. *)

\* The separator of separate mode and of the title variant.
Separator == <<"\n", "\n", "Refined version:", " ">>

\* The separator of combined mode.
CombinedSeparator == <<"\n", "\n", "Refined version:", "\n">>

\* A faulty start of the reconstruction: one list per query, not per
\* context list.
BlankPerQuery(ctx) ==
    [i \in 1..Min(Len(queries), Len(ctx)) |-> [j \in 1..Len(ctx[i]) |-> <<>>]]

\* [[""] * len(docs) for docs in contexts]
Blank(ctx) == [i \in 1..Len(ctx) |-> [j \in 1..Len(ctx[i]) |-> <<>>]]

\* A faulty entry: the generated text is tested without being stripped.
SeparateEntryNoStrip(original_text, generated, concat) ==
    IF Len(generated) > 0
    THEN (IF concat THEN original_text \o Separator \o Strip(generated)
          ELSE Strip(generated))
    ELSE original_text

\* A faulty entry: the generated text is written without being stripped.
SeparateEntryRaw(original_text, generated, concat) ==
    IF Len(Strip(generated)) > 0
    THEN (IF concat THEN original_text \o Separator \o generated ELSE generated)
    ELSE original_text

\* A faulty entry: concatenate_original is not looked at.
SeparateEntryAlwaysConcat(original_text, generated, concat) ==
    IF Len(Strip(generated)) > 0
    THEN original_text \o Separator \o Strip(generated)
    ELSE original_text

\* The entry LLMRewriter writes for one document of query_doc_mapping.
SeparateEntry(original_text, generated, concat) ==
    LET rewritten_text == Strip(generated)
    IN  IF Len(rewritten_text) > 0
        THEN (IF concat THEN original_text \o Separator \o rewritten_text
              ELSE rewritten_text)
        ELSE original_text

\* The entry LLMRewriterWithTitle writes for one document.
TitleEntry(original_text, generated, title, concat) ==
    LET rewritten_text == Strip(generated)
        rewritten_with_title == title \o <<" ">> \o rewritten_text
    IN  IF Len(rewritten_text) = 0 THEN original_text
        ELSE IF concat THEN original_text \o Separator \o rewritten_with_title
        ELSE rewritten_with_title

\* A faulty splice: the text of index p is written to the p-th document of
\* the input, skipped documents counted.
RECURSIVE SpliceByRank(_, _)
SpliceByRank(out, p) ==
    IF p > Len(query_doc_mapping) THEN out
    ELSE LET query_idx == Positions(contexts, queries, 1)[p][1]
             doc_idx == Positions(contexts, queries, 1)[p][2]
             original_text == contexts[query_idx][doc_idx]
         IN  SpliceByRank([out EXCEPT ![query_idx][doc_idx] =
                              IF variant = "title"
                              THEN TitleEntry(original_text, rewritten[p], titles[p],
                                              concatenate_original)
                              ELSE SeparateEntry(original_text, rewritten[p],
                                                 concatenate_original)],
                          p + 1)

\* for passage_idx, (query_idx, doc_idx) in enumerate(query_doc_mapping),
\* from passage_idx = p on (counted from 1).
RECURSIVE Splice(_, _)
Splice(out, p) ==
    IF p > Len(query_doc_mapping) THEN out
    ELSE LET query_idx == query_doc_mapping[p][1]
             doc_idx == query_doc_mapping[p][2]
             original_text == contexts[query_idx][doc_idx]
         IN  Splice([out EXCEPT ![query_idx][doc_idx] =
                        IF variant = "title"
                        THEN TitleEntry(original_text, rewritten[p], titles[p],
                                        concatenate_original)
                        ELSE SeparateEntry(original_text, rewritten[p],
                                           concatenate_original)],
                    p + 1)

\* A faulty fill: the entries that are still "" are dropped.
FillSkippedDropping(out) ==
    [i \in 1..Len(out) |-> SelectSeq(out[i], LAMBDA e : e # <<>>)]

\* "Fill in any empty docs that were skipped": every entry that is still
\* "" takes the text of its document.
FillSkipped(out) ==
    [i \in 1..Len(out) |->
        [j \in 1..Len(out[i]) |-> IF out[i][j] = <<>> THEN contexts[i][j] ELSE out[i][j]]]

\* A faulty entry list: a blank generated text is written like any other.
CombinedEntryNoFallback(i, generated, concat) ==
    IF concat
    THEN <<Join(<<"\n", "\n">>, Labelled("Document", contexts[i], 1))
           \o CombinedSeparator \o generated>>
    ELSE <<generated>>

\* A faulty entry list: the rewritten text alone, whatever
\* concatenate_original says.
CombinedEntryDroppingOriginals(i, generated, concat) ==
    IF Len(Strip(generated)) > 0 THEN <<generated>> ELSE contexts[i]

\* A faulty entry list: the rewritten text is stripped before it is
\* written, as separate mode does.
CombinedEntryStripped(i, generated, concat) ==
    IF Len(Strip(generated)) > 0
    THEN (IF concat
          THEN <<Join(<<"\n", "\n">>, Labelled("Document", contexts[i], 1))
                 \o CombinedSeparator \o Strip(generated)>>
          ELSE <<Strip(generated)>>)
    ELSE contexts[i]

\* The entry list of combined mode for the query of index i.
CombinedEntry(i, generated, concat) ==
    IF Len(Strip(generated)) > 0
    THEN (IF concat
          THEN <<Join(<<"\n", "\n">>, Labelled("Document", contexts[i], 1))
                 \o CombinedSeparator \o generated>>
          ELSE <<generated>>)
    ELSE contexts[i]

\* for query_idx, rewritten in enumerate(rewritten_combined)
CombinedContexts ==
    [i \in 1..Len(rewritten) |-> CombinedEntry(i, rewritten[i], concatenate_original)]

\* A faulty reconstruction: the returned lists are the input lists
\* themselves, written in place.
ReconstructInPlace ==
    /\ pc = "loop"
    /\ batch_size >= 1
    /\ batch_start >= Len(all_prompts)
    /\ IF variant = "title" \/ process_separately
       THEN IF Len(rewritten) < Len(query_doc_mapping)
            THEN /\ raised' = "IndexError"
                 /\ pc' = "raised"
                 /\ UNCHANGED <<rewritten_contexts, contexts>>
            ELSE /\ rewritten_contexts' = FillSkipped(Splice(Blank(contexts), 1))
                 /\ contexts' = rewritten_contexts'
                 /\ pc' = "restore"
                 /\ UNCHANGED raised
       ELSE /\ rewritten_contexts' = CombinedContexts
            /\ contexts' = rewritten_contexts'
            /\ pc' = "restore"
            /\ UNCHANGED raised
    /\ UNCHANGED <<variant, process_separately, concatenate_original, batch_size,
                   rewrite_prompt_template, template_arg, nltk_ok, queries,
                   gen_max_new_tokens, original_max_new_tokens, all_prompts,
                   query_doc_mapping, titles, batch_start, batch_prompts, rewritten,
                   result, calls>>

\* The loop is over and the returned context set is built; in separate
\* mode and in the title variant rewritten[passage_idx] raises IndexError
\* when fewer texts than prompts were collected.
Reconstruct ==
    /\ pc = "loop"
    /\ batch_size >= 1
    /\ batch_start >= Len(all_prompts)
    /\ IF variant = "title" \/ process_separately
       THEN IF Len(rewritten) < Len(query_doc_mapping)
            THEN /\ raised' = "IndexError"
                 /\ pc' = "raised"
                 /\ UNCHANGED rewritten_contexts
            ELSE /\ rewritten_contexts' = FillSkipped(Splice(Blank(contexts), 1))
                 /\ pc' = "restore"
                 /\ UNCHANGED raised
       ELSE /\ rewritten_contexts' = CombinedContexts
            /\ pc' = "restore"
            /\ UNCHANGED raised
    /\ UNCHANGED <<config, gen_max_new_tokens, original_max_new_tokens, all_prompts,
                   query_doc_mapping, titles, batch_start, batch_prompts, rewritten,
                   result, calls>>

\* A faulty return: the generator's max_new_tokens is not restored.
ReturnWithoutRestore ==
    /\ pc = "restore"
    /\ result' = <<rewritten_contexts, <<>>>>
    /\ pc' = "returned"
    /\ UNCHANGED <<config, gen_max_new_tokens, original_max_new_tokens, all_prompts,
                   query_doc_mapping, titles, batch_start, batch_prompts, rewritten,
                   rewritten_contexts, raised, calls>>

\* The generator's max_new_tokens is restored and the pair of the context
\* set and the empty metrics dict is returned.
Return ==
    /\ pc = "restore"
    /\ gen_max_new_tokens' = original_max_new_tokens
    /\ result' = <<rewritten_contexts, <<>>>>
    /\ pc' = "returned"
    /\ UNCHANGED <<config, original_max_new_tokens, all_prompts, query_doc_mapping,
                   titles, batch_start, batch_prompts, rewritten, rewritten_contexts,
                   raised, calls>>

\* The steps of a call whose collaborator keeps its contract: generate
\* returns one text per prompt or raises.
Next ==
    \/ Enter
    \/ BuildPrompts
    \/ Submit
    \/ GenerateReturns
    \/ GenerateRaises
    \/ Reconstruct
    \/ Return

Spec == Init /\ [][Next]_vars

\* The steps of any call: also an invalid batch size and a generate that
\* returns too few texts.
NextAny ==
    \/ Next
    \/ RangeError
    \/ GenerateReturnsShort

SpecAny == InitAny /\ [][NextAny]_vars

-----------------------------------------------------------------------------
(* LLMRewriter in separate mode, built with or without a template. *)

InitPlain ==
    /\ Start(TemplateArgs, 1..MaxBatch, {0})
    /\ variant = "plain"
    /\ process_separately

SpecPlain == InitPlain /\ [][Next]_vars

-----------------------------------------------------------------------------
(* A call with one query fewer than context lists. *)

InitFewer == Start({<<>>}, 1..MaxBatch, {1})

SpecFewer == InitFewer /\ [][Next]_vars

-----------------------------------------------------------------------------
(* _split_title_content called on its own, on any short document. *)

\* The longest document given to _split_title_content.
MaxLen == 4

\* The tokens of these documents: whitespace, the full stop and a word.
SplitTokens == {" ", "\n", ".", "a"}

SplitDocs == UNION {[1..n -> SplitTokens] : n \in 0..MaxLen}

\* A rewriter with titles and one document; sent_tokenize will return or
\* raise.
InitSplit ==
    /\ variant = "title"
    /\ process_separately = TRUE
    /\ concatenate_original \in BOOLEAN
    /\ batch_size = 1
    /\ template_arg = <<>>
    /\ rewrite_prompt_template = InitTemplate("title", template_arg)
    /\ nltk_ok \in BOOLEAN
    /\ \E doc \in SplitDocs : contexts = <<<<doc>>>>
    /\ queries = <<QueryText(1)>>
    /\ gen_max_new_tokens = GeneratorMaxNewTokens
    /\ original_max_new_tokens = 0
    /\ pc = "split"
    /\ all_prompts = <<>>
    /\ query_doc_mapping = <<>>
    /\ titles = <<>>
    /\ batch_start = 0
    /\ batch_prompts = <<>>
    /\ rewritten = <<>>
    /\ rewritten_contexts = <<>>
    /\ raised = "none"
    /\ result = <<>>
    /\ calls = <<>>

\* _split_title_content(doc) returns its pair; the bare except clause
\* catches whatever sent_tokenize raises.
SplitTitle ==
    /\ pc = "split"
    /\ result' = SplitTitleContent(contexts[1][1], nltk_ok)
    /\ pc' = "split_returned"
    /\ UNCHANGED <<config, gen_max_new_tokens, original_max_new_tokens, all_prompts,
                   query_doc_mapping, titles, batch_start, batch_prompts, rewritten,
                   rewritten_contexts, raised, calls>>

NextSplit == SplitTitle

SpecSplit == InitSplit /\ [][NextSplit]_vars

-----------------------------------------------------------------------------
(* What the properties speak of. *)

\* The returned context set.
Output == result[1]

Returned == pc = "returned"

\* Separate mode of LLMRewriter, or the title variant.
SeparateMode == variant = "title" \/ process_separately

PlainSeparate == variant = "plain" /\ process_separately

CombinedMode == variant = "plain" /\ ~process_separately

\* The positions <<i, j>> of the documents that have a query.
DocPositions ==
    UNION {{<<i, j>> : j \in 1..Len(contexts[i])} :
           i \in 1..Min(Len(queries), Len(contexts))}

NonBlankPositions == {d \in DocPositions : ~IsBlank(contexts[d[1]][d[2]])}

BlankPositions == {d \in DocPositions : IsBlank(contexts[d[1]][d[2]])}

\* The rank of document <<i, j>> among the documents that are not blank,
\* in the order of query index, then document index.
PromptIndex(i, j) ==
    Cardinality({d \in NonBlankPositions : d[1] < i \/ (d[1] = i /\ d[2] <= j)})

\* Prompt p (counted from 1) was submitted in call k.
InCall(k, p) ==
    calls[k].start < p /\ p <= calls[k].start + Len(calls[k].prompts)

\* The call that held prompt p raised.
ChunkRaised(p) ==
    \E k \in 1..Len(calls) : InCall(k, p) /\ calls[k].outcome = "raised"

\* The texts the generator returned for prompt p (at most one).
Answers(p) ==
    {calls[k].generated[p - calls[k].start] :
        k \in {c \in 1..Len(calls) : InCall(c, p) /\ calls[c].outcome = "returned"}}

\* The number of prompts submitted so far.
RECURSIVE Submitted(_)
Submitted(k) == IF k = 0 THEN 0 ELSE Len(calls[k].prompts) + Submitted(k - 1)

\* The prompts submitted so far, as a set.
SubmittedPrompts ==
    UNION {{calls[k].prompts[m] : m \in 1..Len(calls[k].prompts)} : k \in 1..Len(calls)}

\* The words of a text: its tokens other than whitespace and ".".
Words(s) == {s[k] : k \in 1..Len(s)} \ (Whitespace \cup {"."})

-----------------------------------------------------------------------------
\* C1: in separate mode and in the title variant, with one query per context
\* list, the returned context set has one list per input list and each list
\* has as many entries as the input list, whatever the chunks returned or
\* raised.
C1_ShapePreserved ==
    (Returned /\ SeparateMode /\ Len(queries) = Len(contexts)) =>
        /\ Len(Output) = Len(contexts)
        /\ \A i \in 1..Len(contexts) : Len(Output[i]) = Len(contexts[i])

C1_Witness ==
    /\ Returned /\ SeparateMode /\ Len(contexts) = 2
    /\ BlankPositions # {}
    /\ \E k \in 1..Len(calls) : calls[k].outcome = "raised"
    /\ \E p \in 1..Len(all_prompts) : \E r \in Answers(p) : IsBlank(r)

\* C2: on every exit of _process, by return or by an exception, the
\* generator's max_new_tokens is the value it had at entry.
C2_RestoredOnEveryExit ==
    pc \in {"returned", "raised"} => gen_max_new_tokens = GeneratorMaxNewTokens

\* C3: whenever _process returns, the generator's max_new_tokens is the
\* value it had at entry, however many generate calls raised.
C3_RestoredOnReturn ==
    Returned => gen_max_new_tokens = GeneratorMaxNewTokens

C3_Witness ==
    /\ Returned
    /\ Len(calls) >= 2
    /\ calls[1].outcome = "raised"
    /\ calls[2].outcome = "returned"

\* C4: at every generate call, the first and the ones after a call that
\* raised, the generator's max_new_tokens is the rewriter's max_new_tokens.
C4_OverrideAtEveryCall ==
    /\ \A k \in 1..Len(calls) : calls[k].max_new_tokens = RewriterMaxNewTokens
    /\ pc = "calling" => gen_max_new_tokens = RewriterMaxNewTokens

C4_Witness ==
    /\ pc = "calling"
    /\ Len(calls) >= 2
    /\ calls[1].outcome = "raised"

\* C5: in separate mode and in the title variant, a document that is not
\* blank and whose generated text is empty or whitespace only, or whose
\* chunk raised, is returned as it was given, with and without
\* concatenate_original.
C5_Fallback ==
    (Returned /\ SeparateMode) =>
        \A d \in NonBlankPositions :
            LET p == PromptIndex(d[1], d[2])
            IN  (ChunkRaised(p) \/ \E r \in Answers(p) : IsBlank(r))
                  => Output[d[1]][d[2]] = contexts[d[1]][d[2]]

C5_Witness ==
    /\ Returned /\ SeparateMode
    /\ \E d \in NonBlankPositions : <<" ">> \in Answers(PromptIndex(d[1], d[2]))
    /\ \E d \in NonBlankPositions : ChunkRaised(PromptIndex(d[1], d[2]))
    /\ \E d \in NonBlankPositions :
          \E r \in Answers(PromptIndex(d[1], d[2])) : ~IsBlank(r)

\* C6: in separate mode of LLMRewriter with concatenate_original, a
\* document whose generated text r is not blank is returned as the
\* document, then "\n\nRefined version: ", then r stripped; the document
\* is a prefix of the entry.
C6_Concatenation ==
    (Returned /\ PlainSeparate /\ concatenate_original) =>
        \A d \in NonBlankPositions :
            \A r \in Answers(PromptIndex(d[1], d[2])) :
                ~IsBlank(r) =>
                    /\ Output[d[1]][d[2]] =
                          contexts[d[1]][d[2]]
                            \o <<"\n", "\n", "Refined version:", " ">> \o Strip(r)
                    /\ IsPrefix(contexts[d[1]][d[2]], Output[d[1]][d[2]])

C6_Witness ==
    /\ Returned /\ PlainSeparate /\ concatenate_original
    /\ \E d \in NonBlankPositions :
          /\ \E r \in Answers(PromptIndex(d[1], d[2])) : ~IsBlank(r) /\ Strip(r) # r
          /\ Strip(contexts[d[1]][d[2]]) # contexts[d[1]][d[2]]

\* C7: in separate mode of LLMRewriter without concatenate_original, a
\* document whose generated text r is not blank is returned as r stripped,
\* and no word of the document is in the entry.
C7_Replacement ==
    (Returned /\ PlainSeparate /\ ~concatenate_original) =>
        \A d \in NonBlankPositions :
            \A r \in Answers(PromptIndex(d[1], d[2])) :
                ~IsBlank(r) =>
                    /\ Output[d[1]][d[2]] = Strip(r)
                    /\ Words(Output[d[1]][d[2]]) \cap Words(contexts[d[1]][d[2]]) = {}

C7_Witness ==
    /\ Returned /\ PlainSeparate /\ ~concatenate_original
    /\ \E d \in NonBlankPositions :
          \E r \in Answers(PromptIndex(d[1], d[2])) : ~IsBlank(r) /\ Strip(r) # r

\* The prompt a document would give if it were sent to the generator.
PromptOfDoc(i, j) ==
    IF variant = "title"
    THEN TitlePrompt(rewrite_prompt_template, queries[i], contexts[i][j], nltk_ok).text
    ELSE SeparatePrompt(rewrite_prompt_template, queries[i], contexts[i][j]).text

\* C8: in separate mode and in the title variant, a blank document gives no
\* prompt in any chunk: the chunks hold one prompt per document that is not
\* blank and none of them is the prompt of a blank document; the document
\* is returned unchanged, whatever the generator returned for the others.
C8_SkipRule ==
    SeparateMode =>
        /\ \A d \in BlankPositions : PromptOfDoc(d[1], d[2]) \notin SubmittedPrompts
        /\ Submitted(Len(calls)) <= Cardinality(NonBlankPositions)
        /\ Returned =>
              \A d \in BlankPositions : Output[d[1]][d[2]] = contexts[d[1]][d[2]]

C8_Witness ==
    /\ Returned /\ SeparateMode
    /\ \E d \in BlankPositions : contexts[d[1]][d[2]] = <<" ">>
    /\ \E d \in BlankPositions : contexts[d[1]][d[2]] = <<>>
    /\ \E d \in NonBlankPositions :
          \E r \in Answers(PromptIndex(d[1], d[2])) : ~IsBlank(r)

\* The query whose prompt pr is (combined mode): the prompt holds its text.
QueriesOfPrompt(pr) == {i \in 1..Len(queries) : Occurs(queries[i], pr)}

\* C9: in combined mode a blank document is left out of generation and
\* passed through: no prompt holds a passage for it, a query without a
\* document that is not blank gives no prompt, and the document is in the
\* returned list of its query, unchanged, whether the rewriting of the
\* query succeeded or not.
C9_CombinedSkip ==
    CombinedMode =>
        /\ \A pr \in SubmittedPrompts : \A i \in QueriesOfPrompt(pr) :
              /\ \A j \in 1..Len(contexts[i]) :
                    IsBlank(contexts[i][j]) =>
                        ~Occurs(<<"Passage " \o ToString(j) \o ": ">>, pr)
              /\ \E j \in 1..Len(contexts[i]) : ~IsBlank(contexts[i][j])
        /\ Returned =>
              \A d \in BlankPositions :
                  /\ d[1] <= Len(Output)
                  /\ \E m \in 1..Len(Output[d[1]]) :
                        Output[d[1]][m] = contexts[d[1]][d[2]]

\* ceil(n / b)
CeilDiv(n, b) == (n + b - 1) \div b

\* The texts recorded for call k: the generated ones, or one empty text per
\* prompt when the call raised.
Recorded(k) ==
    IF calls[k].outcome = "raised"
    THEN [m \in 1..Len(calls[k].prompts) |-> <<>>]
    ELSE calls[k].generated

\* C10: with N prompts and batch_size B >= 1 there are ceil(N / B) generate
\* calls (none when N = 0); call k, counted from 0, gets the prompts
\* k*B .. min((k+1)*B, N) - 1 in order, so each call has 1 to B prompts
\* and each prompt is submitted once; the outputs of the calls, in call
\* order, are one text per prompt in prompt order.
C10_Batching ==
    LET N == Len(all_prompts)
        B == batch_size
    IN  B >= 1 =>
        /\ \A k \in 1..Len(calls) :
              /\ calls[k].start = (k - 1) * B
              /\ calls[k].prompts =
                    [m \in 1..(Min(k * B, N) - (k - 1) * B) |->
                        all_prompts[(k - 1) * B + m]]
              /\ Len(calls[k].prompts) \in 1..B
        /\ pc \in {"restore", "returned"} =>
              /\ Len(calls) = CeilDiv(N, B)
              /\ Submitted(Len(calls)) = N
              /\ rewritten = Flatten([k \in 1..Len(calls) |-> Recorded(k)])
              /\ Len(rewritten) = N

C10_Witness ==
    /\ pc = "restore"
    /\ Len(all_prompts) = 3
    /\ batch_size = 2
    /\ Len(calls) = 2
    /\ calls[1].outcome = "raised"
    /\ calls[2].outcome = "returned"

\* C11: when generate raises for a chunk, the exception does not leave
\* _process, the chunk is not submitted again, one empty text per prompt of
\* the chunk is recorded for it, and every later chunk is still submitted.
C11_FailureRecovered ==
    (\E c \in 1..Len(calls) : calls[c].outcome = "raised") =>
        /\ raised = "none" /\ pc # "raised"
        /\ \A k \in 1..Len(calls) : \A l \in 1..Len(calls) :
              k < l => calls[k].start + Len(calls[k].prompts) <= calls[l].start
        /\ \A k \in 1..Len(calls) :
              calls[k].outcome = "raised" =>
                  /\ Len(rewritten) >= calls[k].start + Len(calls[k].prompts)
                  /\ \A m \in 1..Len(calls[k].prompts) :
                        rewritten[calls[k].start + m] = <<>>
                  /\ (k = Len(calls) /\ pc = "loop") =>
                        Len(rewritten) = calls[k].start + Len(calls[k].prompts)
                  /\ k < Len(calls) =>
                        calls[k + 1].start = calls[k].start + Len(calls[k].prompts)
        /\ pc \in {"restore", "returned"} => Submitted(Len(calls)) = Len(all_prompts)

C11_Witness ==
    /\ Returned
    /\ Len(calls) >= 2
    /\ calls[1].outcome = "raised"
    /\ Len(calls[1].prompts) = 2
    /\ calls[2].outcome = "returned"

\* The documents of query i that are not blank, each after its label
\* "Document j: ", joined by a blank line.
LabelledOriginals(i) ==
    LET docs == contexts[i]
        kept == SelectSeq([j \in 1..Len(docs) |-> j], LAMBDA j : ~IsBlank(docs[j]))
    IN  Join(<<"\n", "\n">>,
             [n \in 1..Len(kept) |->
                <<"Document " \o ToString(kept[n]) \o ": ">> \o docs[kept[n]]])

\* C12: in combined mode, a query whose generated text is not blank gets a
\* list of one element: the labelled originals, "\n\nRefined version:\n"
\* and the text with concatenate_original, the text alone without; a query
\* whose text is blank or whose chunk raised gets its document list as it
\* was given.
C12_CombinedShape ==
    (Returned /\ CombinedMode) =>
        \A i \in 1..Len(queries) :
            /\ \A r \in Answers(i) :
                  IF IsBlank(r) THEN Output[i] = contexts[i]
                  ELSE /\ Len(Output[i]) = 1
                       /\ Output[i][1] =
                             IF concatenate_original
                             THEN LabelledOriginals(i)
                                    \o <<"\n", "\n", "Refined version:", "\n">> \o r
                             ELSE r
            /\ ChunkRaised(i) => Output[i] = contexts[i]

C12_Witness ==
    /\ Returned /\ CombinedMode /\ Len(queries) = 2
    /\ \E i \in 1..2 :
          /\ Len(contexts[i]) = 2
          /\ \E r \in Answers(i) : ~IsBlank(r)
    /\ \E i \in 1..2 : <<" ">> \in Answers(i) \/ ChunkRaised(i)

IsSuffix(s, t) == Len(s) <= Len(t) /\ SubSeq(t, Len(t) - Len(s) + 1, Len(t)) = s

\* C13: in combined mode with one query per context list, Q of each, there
\* is one prompt per query, prompt i made for query i, generate is called
\* ceil(Q / batch_size) times, and the returned context set has Q entries,
\* entry i being the documents of query i or the one entry made from the
\* text generated for prompt i.
C13_CombinedPromptCount ==
    (CombinedMode /\ Len(queries) = Len(contexts)) =>
        LET Q == Len(queries)
        IN  /\ pc \notin {"start", "build"} =>
                  /\ Len(all_prompts) = Q
                  /\ \A i \in 1..Q : QueriesOfPrompt(all_prompts[i]) = {i}
            /\ pc \in {"restore", "returned"} => Len(calls) = CeilDiv(Q, batch_size)
            /\ Returned =>
                  /\ Len(Output) = Q
                  /\ \A i \in 1..Q :
                        \/ Output[i] = contexts[i]
                        \/ /\ Len(Output[i]) = 1
                           /\ \E r \in Answers(i) : IsSuffix(r, Output[i][1])

C13_Witness ==
    /\ Returned /\ CombinedMode
    /\ Len(queries) = 2
    /\ Len(contexts[1]) = 2 /\ Len(contexts[2]) = 0
    /\ batch_size = 1
    /\ Len(calls) = 2


-----------------------------------------------------------------------------
\* C14: in the title variant, a document that is not blank and whose
\* generated text r is not blank gets as refined text the title split from
\* that very document, one space, and r stripped; the entry returned is the
\* document, "\n\nRefined version: " and the refined text with
\* concatenate_original, and the refined text alone without.
C14_TitleRefined ==
    (Returned /\ variant = "title") =>
        \A d \in NonBlankPositions :
            \A r \in Answers(PromptIndex(d[1], d[2])) :
                ~IsBlank(r) =>
                    LET doc == contexts[d[1]][d[2]]
                        refined == SplitTitleContent(doc, nltk_ok)[1]
                                     \o <<" ">> \o Strip(r)
                    IN  Output[d[1]][d[2]] =
                          IF concatenate_original
                          THEN doc \o <<"\n", "\n", "Refined version:", " ">> \o refined
                          ELSE refined

\* A document with a title, after a skipped document and after a document
\* with another title, is refined.
C14_Witness ==
    /\ Returned /\ variant = "title"
    /\ \E d \in NonBlankPositions, b \in BlankPositions, e \in NonBlankPositions :
          /\ PromptIndex(b[1], b[2]) < PromptIndex(d[1], d[2])
          /\ PromptIndex(e[1], e[2]) < PromptIndex(d[1], d[2])
          /\ SplitTitleContent(contexts[d[1]][d[2]], nltk_ok)[1] # <<>>
          /\ SplitTitleContent(contexts[e[1]][e[2]], nltk_ok)[1]
               # SplitTitleContent(contexts[d[1]][d[2]], nltk_ok)[1]
          /\ \E r \in Answers(PromptIndex(d[1], d[2])) : ~IsBlank(r) /\ Strip(r) # r

-----------------------------------------------------------------------------
\* The places of a text where a "." is followed by a space.
DotSpaces(doc) == {k \in 1..(Len(doc) - 1) : doc[k] = "." /\ doc[k + 1] = " "}

\* The text cut at its first ". ": what is before it with a ".", and what
\* is after it; without a ". ", no title and the whole text.
DotSplit(doc) ==
    IF DotSpaces(doc) = {} THEN <<<<>>, doc>>
    ELSE LET k == CHOOSE k \in DotSpaces(doc) : \A l \in DotSpaces(doc) : k <= l
         IN  <<SubSeq(doc, 1, k), SubSeq(doc, k + 2, Len(doc))>>

\* C15: _split_title_content returns the first sentence and the other
\* sentences joined by a space when sent_tokenize returns at least one
\* sentence; when sent_tokenize raises or returns no sentence, what it
\* returns is the document cut at its first ". " (no title and the whole
\* document when there is none); no exception leaves the split.
C15_TitleSplit ==
    pc = "split_returned" =>
        LET doc == contexts[1][1]
            sentences == SentTokenize(doc)
        IN  /\ raised = "none"
            /\ (nltk_ok /\ Len(sentences) > 0) =>
                  /\ result[1] = sentences[1]
                  /\ result[2] = Join(<<" ">>, Tail(sentences))
            /\ (~nltk_ok \/ Len(sentences) = 0) => result = DotSplit(doc)

\* sent_tokenize raised on a document with a ". ", and the title is what
\* stands before it.
C15_Witness ==
    /\ pc = "split_returned"
    /\ ~nltk_ok
    /\ DotSpaces(contexts[1][1]) # {}
    /\ result[1] = <<"a", ".">>
    /\ result[2] = <<"a">>

-----------------------------------------------------------------------------
\* C16: the chunks are submitted one after the other: at most one generate
\* call is outstanding, and it is the last one submitted; every earlier
\* call has returned or raised; the calls are in the order of the chunks,
\* each chunk starting where the one before it ended.
C16_Sequential ==
    /\ Cardinality({k \in 1..Len(calls) : calls[k].outcome = "pending"}) <= 1
    /\ \A k \in 1..Len(calls) :
          calls[k].outcome = "pending" => (k = Len(calls) /\ pc = "calling")
    /\ \A k \in 1..(Len(calls) - 1) : calls[k].outcome \in {"returned", "raised"}
    /\ pc = "calling" => calls[Len(calls)].outcome = "pending"
    /\ \A k \in 1..Len(calls) :
          calls[k].start = (IF k = 1 THEN 0
                            ELSE calls[k - 1].start + Len(calls[k - 1].prompts))

\* A third chunk is outstanding after one chunk returned and one raised.
C16_Witness ==
    /\ pc = "calling"
    /\ Len(calls) = 3
    /\ calls[1].outcome = "returned"
    /\ calls[2].outcome = "raised"
    /\ calls[3].outcome = "pending"

-----------------------------------------------------------------------------
\* The chunks still to be submitted.
ChunksLeft ==
    IF batch_start >= Len(all_prompts) THEN 0
    ELSE CeilDiv(Len(all_prompts) - batch_start, batch_size)

\* A natural number that bounds the steps a call still has to take: before
\* the prompts are built, twice the number of documents and queries (no
\* more prompts than that are built); in the loop, twice the chunks left.
StepsLeft ==
    LET most == 2 * (Cardinality(DocPositions) + Len(queries))
    IN  CASE pc = "start" -> most + 5
          [] pc = "build" -> most + 4
          [] pc = "loop" -> 2 * ChunksLeft + 2
          [] pc = "calling" -> 2 * ChunksLeft + 1
          [] pc = "restore" -> 1
          [] OTHER -> 0

\* The steps of a call other than the building of the prompts.
StepOutsideBuild ==
    Enter \/ Return \/ GenerateRaises \/ Submit \/ Reconstruct \/ GenerateReturns

-----------------------------------------------------------------------------
\* The built-in template of LLMRewriter or the template given at
\* construction, written out with its slots filled by a query and a passage.
Filled(arg, query, passage) ==
    IF arg = <<>>
    THEN <<"Query:">> \o query \o <<"Original Passage:">> \o passage
           \o <<"Rewritten Passage:">>
    ELSE <<"Simplify:", "Query:">> \o query \o <<"Passage:">> \o passage
           \o <<"Simplified:">>

\* The documents whose text, a word of it at least, is in the prompt pr.
DocsOfPrompt(pr) ==
    {d \in DocPositions : Words(contexts[d[1]][d[2]]) \cap Words(pr) # {}}

\* C18: in separate mode of LLMRewriter every prompt handed to the
\* generator is the template of the rewriter (the one given at
\* construction, the built-in one when none was given) with queries[i] in
\* the query slot and the whole text of contexts[i][j] in the passage slot,
\* <<i, j>> being what query_doc_mapping records for the prompt; the prompt
\* holds no other query and no other document.
C18_PromptRendering ==
    PlainSeparate =>
        \A k \in 1..Len(calls) :
            \A m \in 1..Len(calls[k].prompts) :
                LET p == calls[k].start + m
                    i == query_doc_mapping[p][1]
                    j == query_doc_mapping[p][2]
                    prompt == calls[k].prompts[m]
                IN  /\ prompt = Filled(template_arg, queries[i], contexts[i][j])
                    /\ QueriesOfPrompt(prompt) = {i}
                    /\ DocsOfPrompt(prompt) = {<<i, j>>}

\* A rewriter built with a template has submitted the prompts of two
\* queries, one of them for a document that ends with whitespace.
C18_Witness ==
    /\ PlainSeparate
    /\ template_arg = CustomTemplate
    /\ Len(calls) >= 2
    /\ \E k \in 1..Len(calls) : \E m \in 1..Len(calls[k].prompts) :
          query_doc_mapping[calls[k].start + m][1] = 2
    /\ \E k \in 1..Len(calls) : \E m \in 1..Len(calls[k].prompts) :
          LET d == query_doc_mapping[calls[k].start + m]
          IN  Strip(contexts[d[1]][d[2]]) # contexts[d[1]][d[2]]

-----------------------------------------------------------------------------
\* C19: with concatenate_original, in separate mode, in combined mode and
\* in the title variant, whatever chunks returned or raised, the text of
\* every document that is not blank occurs unchanged in the returned list
\* of its query; in separate mode and in the title variant it is the
\* prefix of the entry at its own position.
C19_NoInformationLoss ==
    (Returned /\ concatenate_original) =>
        \A d \in NonBlankPositions :
            LET doc == contexts[d[1]][d[2]]
            IN  /\ \E m \in 1..Len(Output[d[1]]) : Occurs(doc, Output[d[1]][m])
                /\ SeparateMode =>
                      /\ Len(Output[d[1]]) = Len(contexts[d[1]])
                      /\ IsPrefix(doc, Output[d[1]][d[2]])

\* Combined mode with concatenate_original: a query with two documents
\* that are not blank was rewritten into one entry, and the generate call
\* of another query raised.
C19_Witness ==
    /\ Returned /\ CombinedMode /\ concatenate_original
    /\ \E i \in 1..Len(contexts) :
          /\ Cardinality({d \in NonBlankPositions : d[1] = i}) >= 2
          /\ Len(Output[i]) = 1
          /\ \E r \in Answers(i) : ~IsBlank(r)
    /\ \E i \in 1..Len(contexts) :
          /\ ChunkRaised(i)
          /\ \E d \in NonBlankPositions : d[1] = i

-----------------------------------------------------------------------------
\* The text collected for prompt p: what generate returned for it, or ""
\* when its chunk raised.
OwnText(p) == IF ChunkRaised(p) THEN <<>> ELSE CHOOSE r \in Answers(p) : TRUE

\* The entry of a document as a function of the document and of the text
\* collected for its own prompt, and of nothing else.
OwnEntry(doc, text) ==
    IF IsBlank(text) THEN doc
    ELSE (IF concatenate_original
          THEN doc \o <<"\n", "\n", "Refined version:", " ">> ELSE <<>>)
         \o (IF variant = "title"
             THEN SplitTitleContent(doc, nltk_ok)[1] \o <<" ">> ELSE <<>>)
         \o Strip(text)

\* C20: in separate mode and in the title variant the k-th prompt is built
\* from the k-th document that is not blank, in the order of query index,
\* then document index, and that position is recorded for it; the k-th
\* collected text is written to that position, so that the entry returned
\* for a document is a function of the document and of the text generated
\* for its own prompt, whatever blank documents stand in between and
\* wherever the chunks are cut. The prompts and the recorded positions are
\* looked at when they have just been built and when the call has
\* returned; no step in between writes them.
C20_SpliceAlignment ==
    (SeparateMode /\ (Returned \/ (pc = "loop" /\ calls = <<>>))) =>
        /\ Len(all_prompts) = Cardinality(NonBlankPositions)
        /\ Len(query_doc_mapping) = Len(all_prompts)
        /\ \A d \in NonBlankPositions :
              LET k == PromptIndex(d[1], d[2])
              IN  /\ query_doc_mapping[k] = d
                  /\ all_prompts[k] = PromptOfDoc(d[1], d[2])
                  /\ Returned =>
                        /\ rewritten[k] = OwnText(k)
                        /\ Output[d[1]][d[2]] = OwnEntry(contexts[d[1]][d[2]], OwnText(k))

\* One query has a blank document between two documents that are not
\* blank; they went to different chunks and both were rewritten.
C20_Witness ==
    /\ Returned /\ SeparateMode /\ batch_size = 1
    /\ \E i \in 1..Len(contexts) :
          /\ Len(contexts[i]) = 3
          /\ ~IsBlank(contexts[i][1]) /\ IsBlank(contexts[i][2]) /\ ~IsBlank(contexts[i][3])
          /\ \E r \in Answers(PromptIndex(i, 1)) : ~IsBlank(r)
          /\ \E r \in Answers(PromptIndex(i, 3)) : ~IsBlank(r)
          /\ Output[i][2] = contexts[i][2]

-----------------------------------------------------------------------------
\* The one entry combined mode returns for query i rewritten as r.
CombinedRefined(i, r) ==
    IF concatenate_original
    THEN LabelledOriginals(i) \o <<"\n", "\n", "Refined version:", "\n">> \o r
    ELSE r

\* C21: when a generate call raised, the documents whose prompts were in
\* its chunk (in combined mode, the queries) are returned as given, and
\* they are the only ones the failure touches: a document (a query) whose
\* prompt was in a chunk that returned a text that is not blank gets the
\* entry made from the document and that text, the same as when no chunk
\* raises, and not the original.
C21_FailureIsolation ==
    (Returned /\ \E c \in 1..Len(calls) : calls[c].outcome = "raised") =>
        IF SeparateMode
        THEN \A d \in NonBlankPositions :
                LET p == PromptIndex(d[1], d[2])
                    doc == contexts[d[1]][d[2]]
                IN  /\ ChunkRaised(p) => Output[d[1]][d[2]] = doc
                    /\ \A r \in Answers(p) :
                          ~IsBlank(r) =>
                              /\ Output[d[1]][d[2]] = OwnEntry(doc, r)
                              /\ Output[d[1]][d[2]] # doc
        ELSE \A i \in 1..Len(queries) :
                /\ ChunkRaised(i) => Output[i] = contexts[i]
                /\ \A r \in Answers(i) :
                      ~IsBlank(r) =>
                          /\ Output[i] = <<CombinedRefined(i, r)>>
                          /\ Output[i] # contexts[i]

\* The second of three chunks raised; the first and the third returned
\* texts that are not blank.
C21_Witness ==
    /\ Returned
    /\ Len(calls) = 3
    /\ calls[1].outcome = "returned" /\ ~IsBlank(calls[1].generated[1])
    /\ calls[2].outcome = "raised"
    /\ calls[3].outcome = "returned" /\ ~IsBlank(calls[3].generated[1])

-----------------------------------------------------------------------------
\* C22: no step of _process writes its arguments or the configuration of
\* the rewriter: contexts and queries hold the same texts in the same
\* order after the step as before it, and batch_size,
\* concatenate_original, process_separately and the prompt template are
\* the same; of the generator only max_new_tokens is written, and only on
\* entry (to the rewriter's max_new_tokens, which the call never writes)
\* and before the return (back to the saved value).
C22_Frame ==
    [][/\ contexts' = contexts
       /\ queries' = queries
       /\ batch_size' = batch_size
       /\ concatenate_original' = concatenate_original
       /\ process_separately' = process_separately
       /\ variant' = variant
       /\ rewrite_prompt_template' = rewrite_prompt_template
       /\ gen_max_new_tokens' # gen_max_new_tokens =>
             \/ pc = "start" /\ gen_max_new_tokens' = RewriterMaxNewTokens
             \/ pc = "restore" /\ gen_max_new_tokens' = original_max_new_tokens]_vars

\* A call has returned rewritten entries, and its arguments are not the
\* returned lists.
C22_Witness ==
    /\ Returned
    /\ Output # contexts
    /\ \E d \in NonBlankPositions : \E r \in Answers(PromptIndex(d[1], d[2])) : ~IsBlank(r)
    /\ gen_max_new_tokens = GeneratorMaxNewTokens

-----------------------------------------------------------------------------
\* The positions of the documents of the context lists that have no query.
UnpairedPositions ==
    UNION {{<<i, j>> : j \in 1..Len(contexts[i])} :
           i \in (Len(queries) + 1)..Len(contexts)}

\* C23: with fewer queries than context lists, no document of a context
\* list without a query is in a prompt handed to the generator; separate
\* mode and the title variant return one list per context list, each of
\* the length of its input list, and the lists without a query are
\* returned with every document unchanged; combined mode returns
\* len(queries) lists only.
C23_FewerQueries ==
    Len(queries) < Len(contexts) =>
        /\ \A d \in UnpairedPositions : \A pr \in SubmittedPrompts :
              Words(contexts[d[1]][d[2]]) \cap Words(pr) = {}
        /\ Submitted(Len(calls)) <=
              (IF SeparateMode THEN Cardinality(NonBlankPositions) ELSE Len(queries))
        /\ (Returned /\ SeparateMode) =>
              /\ Len(Output) = Len(contexts)
              /\ \A i \in 1..Len(contexts) : Len(Output[i]) = Len(contexts[i])
              /\ \A d \in UnpairedPositions : Output[d[1]][d[2]] = contexts[d[1]][d[2]]
        /\ (Returned /\ CombinedMode) => Len(Output) = Len(queries)

\* Two context lists and one query in separate mode: a document of the
\* first list was rewritten, the second list holds a text and came back.
C23_Witness ==
    /\ Returned /\ SeparateMode
    /\ Len(queries) = 1 /\ Len(contexts) = 2
    /\ \E d \in UnpairedPositions : ~IsBlank(contexts[d[1]][d[2]])
    /\ \E d \in NonBlankPositions : \E r \in Answers(PromptIndex(d[1], d[2])) : ~IsBlank(r)

-----------------------------------------------------------------------------
\* C24: combined mode decides between rewriting and fallback on the
\* generated text stripped, and writes the text as generate returned it:
\* without concatenate_original a text r that is not blank gives the list
\* [r], whitespace around r included, and a text of whitespace only gives
\* the documents as given; with concatenate_original the entry ends with r
\* as returned; separate mode writes r stripped.
C24_CombinedUntrimmed ==
    Returned =>
        /\ CombinedMode =>
              \A i \in 1..Len(queries) : \A r \in Answers(i) :
                  IF IsBlank(r) THEN Output[i] = contexts[i]
                  ELSE IF concatenate_original
                       THEN Len(Output[i]) = 1 /\ IsSuffix(r, Output[i][1])
                       ELSE Output[i] = <<r>>
        /\ (PlainSeparate /\ ~concatenate_original) =>
              \A d \in NonBlankPositions :
                  \A r \in Answers(PromptIndex(d[1], d[2])) :
                      ~IsBlank(r) => Output[d[1]][d[2]] = Strip(r)

\* Combined mode without concatenate_original: a text with whitespace
\* around it was written as it is, and a text of whitespace only made
\* another query fall back.
C24_Witness ==
    /\ Returned /\ CombinedMode /\ ~concatenate_original
    /\ \E i \in 1..Len(queries) : \E r \in Answers(i) :
          ~IsBlank(r) /\ Strip(r) # r /\ Output[i] = <<r>> /\ Output[i] # <<Strip(r)>>
    /\ \E i \in 1..Len(queries) : <<" ">> \in Answers(i) /\ contexts[i] # <<>>

-----------------------------------------------------------------------------
\* C25: with a generator that returns one text per prompt or raises, after
\* each chunk has been handled the texts collected are as many as the
\* prompts submitted so far, whether the chunk returned or raised; while a
\* call is outstanding they are as many as the prompts of the chunks
\* before it; when the loop is left there is one text per prompt, so every
\* index the reconstruction uses is in range: one text, one recorded
\* position (and one title) per prompt, each position inside contexts, and
\* no IndexError.
C25_LoopInvariant ==
    /\ pc = "loop" =>
          /\ Len(rewritten) = Submitted(Len(calls))
          /\ Len(rewritten) = Min(batch_start, Len(all_prompts))
    /\ pc = "calling" => Len(rewritten) = Submitted(Len(calls) - 1)
    /\ pc \in {"restore", "returned"} =>
          /\ Len(rewritten) = Len(all_prompts)
          /\ raised # "IndexError"
          /\ IF SeparateMode
             THEN /\ Len(query_doc_mapping) = Len(rewritten)
                  /\ variant = "title" => Len(titles) = Len(rewritten)
                  /\ \A p \in 1..Len(query_doc_mapping) :
                        /\ query_doc_mapping[p][1] \in 1..Len(contexts)
                        /\ query_doc_mapping[p][2]
                             \in 1..Len(contexts[query_doc_mapping[p][1]])
             ELSE Len(rewritten) <= Len(contexts)

\* The loop was left after a chunk of two prompts that raised and a chunk
\* that returned.
C25_Witness ==
    /\ pc = "restore"
    /\ Len(calls) = 2
    /\ calls[1].outcome = "raised" /\ Len(calls[1].prompts) = 2
    /\ calls[2].outcome = "returned"
    /\ Len(rewritten) = 3
=============================================================================
